---- MODULE Spec2Model ----
(***************************************************************************)
(* Model of market_trend_analyzer.py: the MarketTrendAnalyzer session      *)
(* (fetch_data, calculate_sma/ema/rsi/macd, detect_trend, save_analysis,   *)
(* plot_candlestick) and the main() pipeline that drives it.               *)
(*                                                                         *)
(* float64 values are modelled as exact rationals extended with NaN and    *)
(* the two infinities (IEEE-754 rules for NaN/inf arithmetic and           *)
(* comparisons); rounding error is not modelled.                           *)
(***************************************************************************)
EXTENDS Integers, Sequences, FiniteSets, TLC

VARIABLES
    market_type,   \* self.market_type
    timeframe,     \* self.timeframe
    symbol,        \* self.symbol
    data,          \* self.data: None, or a frame with Date and Close columns
    indicators,    \* self.indicators: key -> series
    lastCall,      \* the last method call: name, arguments, raised?, returned series
    ncalls,        \* number of method calls made on the analyzer
    csv,           \* the file written by save_analysis
    pc,            \* position of main()
    exitStatus,    \* process exit status of main() (-1 while running)
    invoked        \* main(): the steps invoked so far, each with its outcome

vars == <<market_type, timeframe, symbol, data, indicators, lastCall, ncalls,
          csv, pc, exitStatus, invoked>>

-----------------------------------------------------------------------------
(* float64 *)

Abs(x) == IF x < 0 THEN -x ELSE x

RECURSIVE GCD(_, _)
GCD(a, b) == IF b = 0 THEN a ELSE GCD(b, a % b)

NaN  == [k |-> "nan", n |-> 0, d |-> 1]
Inf  == [k |-> "inf", n |-> 0, d |-> 1]
NInf == [k |-> "ninf", n |-> 0, d |-> 1]

\* the rational n/d (d # 0) in lowest terms with a positive denominator
Num(n, d) ==
    LET g == GCD(Abs(n), Abs(d))
        s == IF d < 0 THEN -1 ELSE 1
    IN  [k |-> "num", n |-> s * (n \div g), d |-> s * (d \div g)]

Flt(i) == [k |-> "num", n |-> i, d |-> 1]

FNeg(a) ==
    CASE a.k = "nan"  -> NaN
      [] a.k = "inf"  -> NInf
      [] a.k = "ninf" -> Inf
      [] OTHER        -> [k |-> "num", n |-> -a.n, d |-> a.d]

FAdd(a, b) ==
    CASE a.k = "nan" \/ b.k = "nan" -> NaN
      [] a.k = "inf"  -> IF b.k = "ninf" THEN NaN ELSE Inf
      [] a.k = "ninf" -> IF b.k = "inf" THEN NaN ELSE NInf
      [] b.k = "inf"  -> Inf
      [] b.k = "ninf" -> NInf
      [] a.d = b.d -> IF a.d = 1 THEN Flt(a.n + b.n) ELSE Num(a.n + b.n, a.d)
      [] OTHER ->
            LET g == GCD(a.d, b.d)
                l == (a.d \div g) * b.d
            IN  Num(a.n * (l \div a.d) + b.n * (l \div b.d), l)

FSub(a, b) == FAdd(a, FNeg(b))

FSign(a) ==
    CASE a.k = "inf"  -> 1
      [] a.k = "ninf" -> -1
      [] OTHER        -> IF a.n > 0 THEN 1 ELSE IF a.n < 0 THEN -1 ELSE 0

FMul(a, b) ==
    CASE a.k = "nan" \/ b.k = "nan" -> NaN
      [] a.k # "num" \/ b.k # "num" ->
            IF FSign(a) * FSign(b) = 0 THEN NaN
            ELSE IF FSign(a) * FSign(b) > 0 THEN Inf ELSE NInf
      [] OTHER ->
            LET g1 == GCD(Abs(a.n), b.d)
                g2 == GCD(Abs(b.n), a.d)
            IN  Num((a.n \div g1) * (b.n \div g2), (a.d \div g2) * (b.d \div g1))

\* float division: x/0 is +-inf, 0/0 is NaN, x/inf is 0 (no exception is raised)
FDiv(a, b) ==
    CASE a.k = "nan" \/ b.k = "nan" -> NaN
      [] a.k # "num" ->
            IF b.k # "num" THEN NaN
            ELSE IF FSign(a) * (IF b.n < 0 THEN -1 ELSE 1) > 0 THEN Inf ELSE NInf
      [] b.k # "num" -> Flt(0)
      [] b.n = 0 ->
            IF a.n = 0 THEN NaN ELSE IF a.n > 0 THEN Inf ELSE NInf
      [] OTHER -> FMul(a, Num(b.d, b.n))

\* a > b and a < b: False whenever an operand is NaN
FGt(a, b) ==
    CASE a.k = "nan" \/ b.k = "nan" -> FALSE
      [] a.k = "inf"  -> b.k # "inf"
      [] a.k = "ninf" -> FALSE
      [] b.k = "inf"  -> FALSE
      [] b.k = "ninf" -> TRUE
      [] OTHER        -> a.n * b.d > b.n * a.d

FLt(a, b) == FGt(b, a)

-----------------------------------------------------------------------------
(* pandas Series operations used by the analyzer; a Series is a sequence *)

\* Series.diff(): the first element is NaN
Diff(s) == [i \in 1..Len(s) |-> IF i = 1 THEN NaN ELSE FSub(s[i], s[i - 1])]

\* delta.where(delta > 0, 0): keep where the condition holds, else 0
WherePositive(s) == [i \in 1..Len(s) |-> IF FGt(s[i], Flt(0)) THEN s[i] ELSE Flt(0)]

\* delta.where(delta < 0, 0)
WhereNegative(s) == [i \in 1..Len(s) |-> IF FLt(s[i], Flt(0)) THEN s[i] ELSE Flt(0)]

SeriesNeg(s) == [i \in 1..Len(s) |-> FNeg(s[i])]

\* s[lo] + ... + s[hi], summed by halves
RECURSIVE SumRange(_, _, _)
SumRange(s, lo, hi) ==
    IF lo > hi THEN Flt(0)
    ELSE IF lo = hi THEN s[lo]
    ELSE FAdd(SumRange(s, lo, (lo + hi) \div 2), SumRange(s, ((lo + hi) \div 2) + 1, hi))

\* rolling(window=w): ValueError for a negative window; 0 is accepted
RollingRaises(w) == w < 0

\* (mutant) min_periods = 1: a mean of whatever the window holds
MinPeriodsOne(w) == 1

\* number of observations a window needs (min_periods defaults to the window)
MinPeriods(w) == w

\* rolling(window=w).mean() for w >= 0: the mean of the observations in the
\* window [i-w+1, i], NaN while fewer than MinPeriods of them exist; an empty
\* window (w = 0) has no observations and no mean
RollingMean(s, w) ==
    [i \in 1..Len(s) |->
        LET lo == IF i - w + 1 < 1 THEN 1 ELSE i - w + 1
            nobs == i - lo + 1
        IN  IF w = 0 \/ nobs < MinPeriods(w) THEN NaN
            ELSE FDiv(SumRange(s, lo, i), Flt(nobs))]

\* ewm(span=...): ValueError unless span >= 1
EwmRaises(span) == span < 1

Alpha(span) == Num(2, span + 1)

\* ewm(span, adjust=False).mean(): y[0] = x[0], y[t] = (1-a)*y[t-1] + a*x[t]
RECURSIVE EwmAt(_, _, _)
EwmAt(s, span, i) ==
    IF i = 1 THEN s[1]
    ELSE FAdd(FMul(FSub(Flt(1), Alpha(span)), EwmAt(s, span, i - 1)),
              FMul(Alpha(span), s[i]))

EwmMean(s, span) == [i \in 1..Len(s) |-> EwmAt(s, span, i)]

SeriesSub(a, b) == [i \in 1..Len(a) |-> FSub(a[i], b[i])]
SeriesDiv(a, b) == [i \in 1..Len(a) |-> FDiv(a[i], b[i])]

-----------------------------------------------------------------------------
(* Program constants *)

SMA_SHORT   == 20    \* detect_trend: calculate_sma(window=20)
SMA_LONG    == 50    \* detect_trend: calculate_sma(window=50)
RSI_PERIODS == 14    \* calculate_rsi(periods=14)
RSI_MID     == 50    \* detect_trend: rsi > 50, rsi < 50
EMA_WINDOW  == 20    \* main: calculate_ema(window=20)
MACD_FAST   == 12    \* calculate_macd(fast=12, ...)
MACD_SLOW   == 26
MACD_SIGNAL == 9

(* Bounds of the model *)

MaxCalls == 3        \* method calls made on one analyzer
MaxRows  == 2        \* rows of a short price series
MaxLen   == 61       \* rows of the longest price series

-----------------------------------------------------------------------------
(* Indicator mapping keys: f'SMA_{window}', f'EMA_{window}', 'RSI', ... *)

SmaKey(w)    == <<"SMA", w>>
EmaKey(w)    == <<"EMA", w>>
RsiKey       == <<"RSI", 0>>
MacdKey      == <<"MACD", 0>>
SignalKey    == <<"Signal", 0>>
HistogramKey == <<"Histogram", 0>>
TrendKey     == <<"Trend", 0>>

\* self.indicators[key] = value
Put(ind, key, value) ==
    [x \in (DOMAIN ind) \cup {key} |-> IF x = key THEN value ELSE ind[x]]

NoIndicators == [x \in {} |-> << >>]

\* self.data = None
NoData == [frame |-> FALSE, Date |-> << >>, Close |-> << >>]

Frame(dates, closes) ==
    [frame |-> TRUE, Date |-> dates,
     Close |-> [i \in 1..Len(closes) |-> Flt(closes[i])]]

NRows(d) == Len(d.Close)

-----------------------------------------------------------------------------
(* Indicator computations (the bodies of the calculate_* methods) *)

\* self.data['Close'] raises TypeError when self.data is None
CloseRaises(d) == ~d.frame

\* (mutant) the window taken one row too wide
SmaWide(close, window) == RollingMean(close, window + 1)

Sma(close, window) == RollingMean(close, window)

Ema(close, window) == EwmMean(close, window)

RsiGain(close, periods) == RollingMean(WherePositive(Diff(close)), periods)
RsiLoss(close, periods) == RollingMean(SeriesNeg(WhereNegative(Diff(close))), periods)

\* (mutant) rsi = 100 - (100 / rs)
RsiOfNoOne(rs) == FSub(Flt(100), FDiv(Flt(100), rs))

\* rsi = 100 - (100 / (1 + rs))
RsiOf(rs) == FSub(Flt(100), FDiv(Flt(100), FAdd(Flt(1), rs)))

Rsi(close, periods) ==
    LET rs == SeriesDiv(RsiGain(close, periods), RsiLoss(close, periods))
    IN  [i \in 1..Len(close) |-> RsiOf(rs[i])]

MacdLine(close, fast, slow) == SeriesSub(Ema(close, fast), Ema(close, slow))
SignalLine(macd, signal) == EwmMean(macd, signal)

\* (mutant) comparisons written as negations, which NaN satisfies
TrendLabelNotLess(sma_short, sma_long, rsi) ==
    IF ~FLt(sma_short, sma_long) /\ ~FLt(rsi, Flt(RSI_MID)) /\ sma_short # sma_long
    THEN "Bullish"
    ELSE IF ~FGt(sma_short, sma_long) /\ ~FGt(rsi, Flt(RSI_MID)) /\ sma_short # sma_long
    THEN "Bearish"
    ELSE "Neutral"

\* the if / elif of detect_trend for one index
TrendLabel(sma_short, sma_long, rsi) ==
    IF FGt(sma_short, sma_long) /\ FGt(rsi, Flt(RSI_MID)) THEN "Bullish"
    ELSE IF FLt(sma_short, sma_long) /\ FLt(rsi, Flt(RSI_MID)) THEN "Bearish"
    ELSE "Neutral"

TrendSeries(sma_short, sma_long, rsi, n) ==
    [i \in 1..n |-> TrendLabel(sma_short[i], sma_long[i], rsi[i])]

SmaRaises(d, window) == CloseRaises(d) \/ RollingRaises(window)
EmaRaises(d, window) == CloseRaises(d) \/ EwmRaises(window)
RsiRaises(d, periods) == CloseRaises(d) \/ RollingRaises(periods)
MacdRaises(d, fast, slow, signal) ==
    CloseRaises(d) \/ EwmRaises(fast) \/ EwmRaises(slow) \/ EwmRaises(signal)

\* self.indicators after calculate_sma(window) / calculate_rsi(periods)
AfterSma(ind, d, window) ==
    IF SmaRaises(d, window) THEN ind
    ELSE Put(ind, SmaKey(window), Sma(d.Close, window))

AfterRsi(ind, d, periods) ==
    IF RsiRaises(d, periods) THEN ind
    ELSE Put(ind, RsiKey, Rsi(d.Close, periods))

\* detect_trend: the three calculate_* calls it makes, in order; a raising
\* call ends the method with what was stored before it
TrendRaises(d) ==
    SmaRaises(d, SMA_SHORT) \/ SmaRaises(d, SMA_LONG) \/ RsiRaises(d, RSI_PERIODS)

\* (mutant) entries already stored are used as they are
TrendInputsStored(ind, d) ==
    IF TrendRaises(d) THEN ind
    ELSE LET i1 == IF SmaKey(SMA_SHORT) \in DOMAIN ind THEN ind
                   ELSE AfterSma(ind, d, SMA_SHORT)
             i2 == IF SmaKey(SMA_LONG) \in DOMAIN i1 THEN i1
                   ELSE AfterSma(i1, d, SMA_LONG)
         IN  IF RsiKey \in DOMAIN i2 THEN i2 ELSE AfterRsi(i2, d, RSI_PERIODS)

TrendInputs(ind, d) ==
    IF SmaRaises(d, SMA_SHORT) THEN ind
    ELSE IF SmaRaises(d, SMA_LONG) THEN AfterSma(ind, d, SMA_SHORT)
    ELSE AfterRsi(AfterSma(AfterSma(ind, d, SMA_SHORT), d, SMA_LONG), d, RSI_PERIODS)

AfterTrend(ind, d) ==
    IF TrendRaises(d) THEN TrendInputs(ind, d)
    ELSE LET i3 == TrendInputs(ind, d)
         IN  Put(i3, TrendKey,
                 TrendSeries(i3[SmaKey(SMA_SHORT)], i3[SmaKey(SMA_LONG)],
                             i3[RsiKey], NRows(d)))

-----------------------------------------------------------------------------
(* What the data providers can return *)

Prices == {10, 11}

\* every series of at most MaxRows rows
ShortSeries == UNION { [1..n -> Prices] : n \in 0..MaxRows }

\* a walk of n closes from base: steps cycle through p before index turn
\* and through q from it on
StepAt(i, p, q, turn) ==
    IF i < turn THEN p[((i - 1) % Len(p)) + 1] ELSE q[((i - turn) % Len(q)) + 1]

RECURSIVE StepSum(_, _, _, _, _)
StepSum(lo, hi, p, q, turn) ==
    IF lo > hi THEN 0
    ELSE IF lo = hi THEN StepAt(lo, p, q, turn)
    ELSE StepSum(lo, (lo + hi) \div 2, p, q, turn)
         + StepSum(((lo + hi) \div 2) + 1, hi, p, q, turn)

CloseAt(i, base, p, q, turn) == base + StepSum(1, i - 1, p, q, turn)

Walk(n, base, p, q, turn) == [i \in 1..n |-> CloseAt(i, base, p, q, turn)]

Shapes ==
    { [base |-> 10,  p |-> <<1>>,     q |-> <<1>>,  turn |-> 1],    \* 10, 11, 12, ...
      [base |-> 100, p |-> <<-1>>,    q |-> <<-1>>, turn |-> 1],    \* falling
      [base |-> 100, p |-> <<0>>,     q |-> <<0>>,  turn |-> 1],    \* flat
      [base |-> 100, p |-> <<2, -1>>, q |-> <<2, -1>>, turn |-> 1], \* zigzag up
      [base |-> 100, p |-> <<-2, 1>>, q |-> <<-2, 1>>, turn |-> 1], \* zigzag down
      [base |-> 100, p |-> <<1>>,     q |-> <<-1>>, turn |-> 45],   \* rise, then fall
      [base |-> 100, p |-> <<-1>>,    q |-> <<1>>,  turn |-> 45],   \* fall, then rise
      [base |-> 100, p |-> <<1>>,     q |-> <<0>>,  turn |-> 55] }  \* rise, then flat

Lengths == {0, 1, 11, 49, 50, 60, MaxLen}

LongSeries == { Walk(n, s.base, s.p, s.q, s.turn) : n \in Lengths, s \in Shapes }

\* the end dates a request can name for a provider answer of n rows dated 1..n
EndDates(n) == {e \in {0, n - 1, n} : e >= 0}

Dates(n) == [i \in 1..n |-> i]

-----------------------------------------------------------------------------
(* The analyzer's methods *)

Call(op, args, raised, ret) == [op |-> op, args |-> args, raised |-> raised, ret |-> ret]

NoCsv == [written |-> FALSE, columns |-> {}, rows |-> 0]

ValidMarketTypes == {"stock", "crypto"}
TimeframeMap == {"1h", "1d", "1w"}

\* validate_inputs
ValidateRaises(m, sym) == m \notin ValidMarketTypes \/ sym = ""

\* fetch_data. answer is what the provider does: it raises (ok = FALSE) or
\* returns rows, dated 1..n; end is the requested end date.
\* stock: self.data is assigned before the emptiness check.
\* crypto: rows dated after end are dropped; there is no emptiness check.
FetchRaises(m, tf, answer) ==
    IF m = "stock" THEN ~answer.ok \/ Len(answer.rows) = 0
    ELSE tf \notin TimeframeMap \/ ~answer.ok

FetchedData(m, tf, old, answer, end) ==
    IF m = "stock"
    THEN IF ~answer.ok THEN old ELSE Frame(Dates(Len(answer.rows)), answer.rows)
    ELSE IF tf \notin TimeframeMap \/ ~answer.ok THEN old
         ELSE LET dates == Dates(Len(answer.rows))
                  keep  == {i \in 1..Len(dates) : dates[i] <= end}
                  n     == Cardinality(keep)
              IN  Frame(SubSeq(dates, 1, n), SubSeq(answer.rows, 1, n))

DoFetchData(answer, end) ==
    /\ data' = FetchedData(market_type, timeframe, data, answer, end)
    /\ lastCall' = Call("fetch_data", << >>,
                        FetchRaises(market_type, timeframe, answer), << >>)
    /\ ncalls' = ncalls + 1
    /\ UNCHANGED <<market_type, timeframe, symbol, indicators, csv>>

DoCalculateSma(window) ==
    /\ indicators' = AfterSma(indicators, data, window)
    /\ lastCall' = Call("calculate_sma", <<window>>, SmaRaises(data, window),
                        IF SmaRaises(data, window) THEN << >>
                        ELSE indicators'[SmaKey(window)])
    /\ ncalls' = ncalls + 1
    /\ UNCHANGED <<market_type, timeframe, symbol, data, csv>>

DoCalculateEma(window) ==
    /\ indicators' = IF EmaRaises(data, window) THEN indicators
                     ELSE Put(indicators, EmaKey(window), Ema(data.Close, window))
    /\ lastCall' = Call("calculate_ema", <<window>>, EmaRaises(data, window),
                        IF EmaRaises(data, window) THEN << >>
                        ELSE indicators'[EmaKey(window)])
    /\ ncalls' = ncalls + 1
    /\ UNCHANGED <<market_type, timeframe, symbol, data, csv>>

DoCalculateRsi(periods) ==
    /\ indicators' = AfterRsi(indicators, data, periods)
    /\ lastCall' = Call("calculate_rsi", <<periods>>, RsiRaises(data, periods),
                        IF RsiRaises(data, periods) THEN << >>
                        ELSE indicators'[RsiKey])
    /\ ncalls' = ncalls + 1
    /\ UNCHANGED <<market_type, timeframe, symbol, data, csv>>

DoCalculateMacd(fast, slow, signal) ==
    /\ IF MacdRaises(data, fast, slow, signal)
       THEN /\ indicators' = indicators
            /\ lastCall' = Call("calculate_macd", <<fast, slow, signal>>, TRUE, << >>)
       ELSE LET macd == MacdLine(data.Close, fast, slow)
                sig  == SignalLine(macd, signal)
                hist == SeriesSub(macd, sig)
            IN  /\ indicators' = Put(Put(Put(indicators, MacdKey, macd),
                                         SignalKey, sig), HistogramKey, hist)
                /\ lastCall' = Call("calculate_macd", <<fast, slow, signal>>, FALSE,
                                    <<macd, sig, hist>>)
    /\ ncalls' = ncalls + 1
    /\ UNCHANGED <<market_type, timeframe, symbol, data, csv>>

DoDetectTrend ==
    /\ indicators' = AfterTrend(indicators, data)
    /\ lastCall' = Call("detect_trend", << >>, TrendRaises(data),
                        IF TrendRaises(data) THEN << >>
                        ELSE indicators'[TrendKey])
    /\ ncalls' = ncalls + 1
    /\ UNCHANGED <<market_type, timeframe, symbol, data, csv>>

\* save_analysis: self.data.copy() raises on None; to_csv can fail (ioFails)
SaveRaises(d, ioFails) == ~d.frame \/ ioFails

DoSaveAnalysis(ioFails) ==
    /\ csv' = IF SaveRaises(data, ioFails) THEN csv
              ELSE [written |-> TRUE, columns |-> DOMAIN indicators, rows |-> NRows(data)]
    /\ lastCall' = Call("save_analysis", << >>, SaveRaises(data, ioFails), << >>)
    /\ ncalls' = ncalls + 1
    /\ UNCHANGED <<market_type, timeframe, symbol, data, indicators>>

\* plot_candlestick: plots self.indicators.get(key, []) against self.data['Date'];
\* series of different lengths cannot be plotted; savefig can fail (ioFails)
PlottedKeys == {SmaKey(SMA_SHORT), SmaKey(SMA_LONG), RsiKey, MacdKey, SignalKey, HistogramKey}

PlotRaises(d, ind, ioFails) ==
    \/ ~d.frame
    \/ \E key \in PlottedKeys :
          (IF key \in DOMAIN ind THEN Len(ind[key]) ELSE 0) # NRows(d)
    \/ ioFails

DoPlotCandlestick(ioFails) ==
    /\ lastCall' = Call("plot_candlestick", << >>, PlotRaises(data, indicators, ioFails), << >>)
    /\ ncalls' = ncalls + 1
    /\ UNCHANGED <<market_type, timeframe, symbol, data, indicators, csv>>

-----------------------------------------------------------------------------
(* Spec: one analyzer, its methods called in any order, on short series *)

mainVars == <<pc, exitStatus, invoked>>

\* a constructed analyzer (__init__ returned)
Init ==
    /\ market_type \in ValidMarketTypes
    /\ timeframe \in {"1d", "5m"}
    /\ symbol = "SYM"
    /\ data = NoData
    /\ indicators = NoIndicators
    /\ lastCall = Call("__init__", << >>, FALSE, << >>)
    /\ ncalls = 0
    /\ csv = NoCsv
    /\ pc = "none"
    /\ exitStatus = -1
    /\ invoked = << >>

Answers(series) ==
    {[ok |-> FALSE, rows |-> << >>]} \cup {[ok |-> TRUE, rows |-> s] : s \in series}

FetchData(answer, end) ==
    ncalls < MaxCalls /\ DoFetchData(answer, end) /\ UNCHANGED mainVars
CalculateSma(window) ==
    ncalls < MaxCalls /\ DoCalculateSma(window) /\ UNCHANGED mainVars
CalculateEma(window) ==
    ncalls < MaxCalls /\ DoCalculateEma(window) /\ UNCHANGED mainVars
CalculateRsi(periods) ==
    ncalls < MaxCalls /\ DoCalculateRsi(periods) /\ UNCHANGED mainVars
CalculateMacd(fast, slow, signal) ==
    ncalls < MaxCalls /\ DoCalculateMacd(fast, slow, signal) /\ UNCHANGED mainVars
DetectTrend ==
    ncalls < MaxCalls /\ DoDetectTrend /\ UNCHANGED mainVars
SaveAnalysis(ioFails) ==
    ncalls < MaxCalls /\ DoSaveAnalysis(ioFails) /\ UNCHANGED mainVars
PlotCandlestick(ioFails) ==
    ncalls < MaxCalls /\ DoPlotCandlestick(ioFails) /\ UNCHANGED mainVars

WindowArgs == {-1, 0, 1, 2}
MacdArgs == { <<MACD_FAST, MACD_SLOW, MACD_SIGNAL>>, <<1, 2, 1>>,
              <<0, MACD_SLOW, MACD_SIGNAL>>, <<MACD_FAST, -1, MACD_SIGNAL>>,
              <<MACD_FAST, MACD_SLOW, 0>> }

Next ==
    \/ \E answer \in Answers(ShortSeries) :
          \E end \in EndDates(Len(answer.rows)) :
             FetchData(answer, end)
    \/ \E w \in WindowArgs : CalculateSma(w)
    \/ \E w \in WindowArgs : CalculateEma(w)
    \/ \E p \in WindowArgs : CalculateRsi(p)
    \/ \E a \in MacdArgs : CalculateMacd(a[1], a[2], a[3])
    \/ DetectTrend
    \/ \E f \in BOOLEAN : SaveAnalysis(f)
    \/ \E f \in BOOLEAN : PlotCandlestick(f)

Spec == Init /\ [][Next]_vars

-----------------------------------------------------------------------------
(* TrendSpec: the windowed indicators and the trend classifier, on series   *)
(* long enough to leave the SMA(50) warm-up                                 *)

SmaArgs == {1, 5, SMA_LONG}
RsiArgs == {2, RSI_PERIODS}

\* a stock analyzer on daily data
TrendInit == Init /\ market_type = "stock" /\ timeframe = "1d"

\* the first successful fetch of the session
FetchOnce(answer, end) == ~data.frame /\ FetchData(answer, end)

TrendNext ==
    \/ \E answer \in Answers(LongSeries) :
          \E end \in EndDates(Len(answer.rows)) :
             FetchOnce(answer, end)
    \/ \E w \in SmaArgs : CalculateSma(w)
    \/ \E p \in RsiArgs : CalculateRsi(p)
    \/ DetectTrend

TrendSpec == TrendInit /\ [][TrendNext]_vars

-----------------------------------------------------------------------------
(* MainSpec: one run of main() *)

\* (mutant) the exception is swallowed and the run goes on
OnOutcomeSwallow(raised, next) == next

\* main's try / except Exception: sys.exit(1)
OnOutcome(raised, next) == IF raised THEN "failed" ELSE next

ExitOf(p) == IF p = "failed" THEN 1 ELSE IF p = "done" THEN 0 ELSE -1

Record(step, next) ==
    /\ invoked' = Append(invoked, [step |-> step, raised |-> lastCall'.raised])
    /\ pc' = OnOutcome(lastCall'.raised, next)
    /\ exitStatus' = ExitOf(pc')

\* after parse_arguments: --market is one of the choices, --symbol may be ''
MainInit ==
    /\ market_type \in ValidMarketTypes
    /\ timeframe \in {"1d", "5m"}
    /\ symbol \in {"", "SYM"}
    /\ data = NoData
    /\ indicators = NoIndicators
    /\ lastCall = Call("parse_arguments", << >>, FALSE, << >>)
    /\ ncalls = 0
    /\ csv = NoCsv
    /\ pc = "init"
    /\ exitStatus = -1
    /\ invoked = << >>

MainConstruct ==
    /\ pc = "init"
    /\ lastCall' = Call("__init__", << >>, ValidateRaises(market_type, symbol), << >>)
    /\ UNCHANGED <<market_type, timeframe, symbol, data, indicators, ncalls, csv>>
    /\ Record("__init__", "fetch")

MainFetch(answer, end) ==
    pc = "fetch" /\ DoFetchData(answer, end) /\ Record("fetch_data", "sma_short")
MainSmaShort ==
    pc = "sma_short" /\ DoCalculateSma(SMA_SHORT) /\ Record("calculate_sma", "sma_long")
MainSmaLong ==
    pc = "sma_long" /\ DoCalculateSma(SMA_LONG) /\ Record("calculate_sma", "ema")
MainEma ==
    pc = "ema" /\ DoCalculateEma(EMA_WINDOW) /\ Record("calculate_ema", "rsi")
MainRsi ==
    pc = "rsi" /\ DoCalculateRsi(RSI_PERIODS) /\ Record("calculate_rsi", "macd")
MainMacd ==
    /\ pc = "macd"
    /\ DoCalculateMacd(MACD_FAST, MACD_SLOW, MACD_SIGNAL)
    /\ Record("calculate_macd", "trend")
MainTrend ==
    pc = "trend" /\ DoDetectTrend /\ Record("detect_trend", "save")
MainSave(ioFails) ==
    pc = "save" /\ DoSaveAnalysis(ioFails) /\ Record("save_analysis", "plot")
MainPlot(ioFails) ==
    pc = "plot" /\ DoPlotCandlestick(ioFails) /\ Record("plot_candlestick", "done")

MainNext ==
    \/ MainConstruct
    \/ \E answer \in Answers(ShortSeries) :
          \E end \in EndDates(Len(answer.rows)) :
             MainFetch(answer, end)
    \/ MainSmaShort
    \/ MainSmaLong
    \/ MainEma
    \/ MainRsi
    \/ MainMacd
    \/ MainTrend
    \/ \E f \in BOOLEAN : MainSave(f)
    \/ \E f \in BOOLEAN : MainPlot(f)

MainSpec == MainInit /\ [][MainNext]_vars

-----------------------------------------------------------------------------
(* Properties *)

\* the last call was op and it returned normally
Returned(op) == lastCall.op = op /\ ~lastCall.raised

N == NRows(data)

\* the closes held by the analyzer, as integers (every provider price is one)
IntClose(i) == data.Close[i].n

RECURSIVE SumClose(_, _)
SumClose(lo, hi) ==
    IF lo > hi THEN 0
    ELSE IF lo = hi THEN IntClose(lo)
    ELSE SumClose(lo, (lo + hi) \div 2) + SumClose(((lo + hi) \div 2) + 1, hi)

\* a > b and a < b on finite values; NaN is neither above nor below anything
Above(a, b) == a.k = "num" /\ b.k = "num" /\ a.n * b.d > b.n * a.d
Below(a, b) == a.k = "num" /\ b.k = "num" /\ a.n * b.d < b.n * a.d

IsRising == \A i \in 2..N : IntClose(i) = IntClose(i - 1) + 1

\* C1: after detect_trend, index i is Bullish exactly when SMA_20[i] > SMA_50[i]
\* and RSI[i] > 50, Bearish exactly when SMA_20[i] < SMA_50[i] and RSI[i] < 50,
\* and Neutral otherwise (NaN satisfies neither comparison); the label at i is
\* a function of the three values at i alone.
C1_TrendRule ==
    Returned("detect_trend") =>
        \A i \in 1..N :
            LET s   == indicators[SmaKey(SMA_SHORT)][i]
                l   == indicators[SmaKey(SMA_LONG)][i]
                r   == indicators[RsiKey][i]
                lab == indicators[TrendKey][i]
                bull == Above(s, l) /\ Above(r, Flt(RSI_MID))
                bear == Below(s, l) /\ Below(r, Flt(RSI_MID))
            IN  /\ {s.k, l.k, r.k} \subseteq {"num", "nan"}
                /\ lab = "Bullish" <=> bull
                /\ lab = "Bearish" <=> bear
                /\ lab = "Neutral" <=> (~bull /\ ~bear)

\* a Bearish index, and an index that is Neutral by mixed signals (SMA_20 below
\* SMA_50 with RSI above 50), in one trend series
C1_Witness ==
    /\ Returned("detect_trend")
    /\ \E i \in 1..N : indicators[TrendKey][i] = "Bearish"
    /\ \E j \in 1..N :
          /\ indicators[TrendKey][j] = "Neutral"
          /\ Below(indicators[SmaKey(SMA_SHORT)][j], indicators[SmaKey(SMA_LONG)][j])
          /\ Above(indicators[RsiKey][j], Flt(RSI_MID))

\* C2: the Trend series has one label per row and is Neutral at every index
\* below 49 (0-based), whatever the prices.
C2_TrendWarmup ==
    Returned("detect_trend") =>
        /\ Len(indicators[TrendKey]) = N
        /\ Len(lastCall.ret) = N
        /\ \A i \in 1..N : i - 1 < SMA_LONG - 1 => indicators[TrendKey][i] = "Neutral"

\* a series whose index 49 (0-based), the first after the warm-up, is not Neutral
C2_Witness ==
    /\ Returned("detect_trend")
    /\ N >= SMA_LONG
    /\ indicators[TrendKey][SMA_LONG] # "Neutral"
    /\ \A i \in 1..(SMA_LONG - 1) : indicators[TrendKey][i] = "Neutral"

\* C7: calculate_sma(W), W >= 1, returns N values: NaN at every index below W-1
\* (0-based), the mean of the W closes ending at i from there on; the returned
\* series is the one stored under SMA_W. On closes 10..20 with W = 5 the value
\* at index 3 is NaN and the value at index 4 is 12.
C7_SmaValues ==
    (Returned("calculate_sma") /\ lastCall.args[1] >= 1) =>
        LET W   == lastCall.args[1]
            sma == lastCall.ret
        IN  /\ Len(sma) = N
            /\ \A i \in 1..N :
                  IF i - 1 < W - 1 THEN sma[i].k = "nan"
                  ELSE /\ sma[i].k = "num"
                       /\ sma[i].n * W = sma[i].d * SumClose(i - W + 1, i)
            /\ indicators[SmaKey(W)] = sma
            /\ (N = 11 /\ IntClose(1) = 10 /\ IsRising /\ W = 5) =>
                  (sma[4] = NaN /\ sma[5] = Flt(12))

\* SMA(5) of the closes 10, 11, ..., 20
C7_Witness ==
    /\ Returned("calculate_sma")
    /\ lastCall.args = <<5>>
    /\ N = 11 /\ IntClose(1) = 10 /\ IsRising
    /\ lastCall.ret[5] = Flt(12)
    /\ lastCall.ret[11] = Flt(18)

\* C8: at every index where the rolling averages of gain and loss are defined,
\* calculate_rsi(P) is exactly 100 when avg_loss = 0 < avg_gain, NaN when both
\* are 0, and otherwise 100 - 100/(1 + avg_gain/avg_loss), a value in [0, 100];
\* on closes rising by 1 RSI(14) is exactly 100 from index 14 (0-based) on.
C8_RsiValues ==
    (Returned("calculate_rsi") /\ lastCall.args[1] >= 1) =>
        LET P   == lastCall.args[1]
            rsi == lastCall.ret
        IN  /\ \A i \in 1..N :
                  \A g \in {RsiGain(data.Close, P)[i]} :
                  \A l \in {RsiLoss(data.Close, P)[i]} :
                      (g.k = "num" /\ l.k = "num") =>
                        /\ (l.n = 0 /\ g.n > 0) => rsi[i] = Flt(100)
                        /\ (l.n = 0 /\ g.n = 0) => rsi[i] = NaN
                        /\ l.n > 0 =>
                              /\ rsi[i].k = "num"
                              /\ rsi[i].n * (g.n * l.d + l.n * g.d)
                                    = 100 * g.n * l.d * rsi[i].d
                              /\ 0 <= rsi[i].n /\ rsi[i].n <= 100 * rsi[i].d
            /\ (IsRising /\ P = RSI_PERIODS) =>
                  \A i \in 1..N : i - 1 >= RSI_PERIODS => rsi[i] = Flt(100)

\* RSI(14) of 60 closes rising by 1
C8_Witness ==
    /\ Returned("calculate_rsi")
    /\ lastCall.args = <<RSI_PERIODS>>
    /\ N = 60 /\ IsRising
    /\ lastCall.ret[N] = Flt(100)

\* C10: RSI(P)[i] is NaN at every index i < P (0-based): a window that holds
\* index 0 lacks one price change.
C10_RsiWarmup ==
    (Returned("calculate_rsi") /\ lastCall.args[1] >= 1) =>
        \A i \in 1..N : i - 1 < lastCall.args[1] => lastCall.ret[i] = NaN

IntGain(i) ==
    IF i = 1 \/ IntClose(i) <= IntClose(i - 1) THEN 0 ELSE IntClose(i) - IntClose(i - 1)
IntLoss(i) ==
    IF i = 1 \/ IntClose(i) >= IntClose(i - 1) THEN 0 ELSE IntClose(i - 1) - IntClose(i)

RECURSIVE SumGain(_, _)
SumGain(lo, hi) ==
    IF lo > hi THEN 0
    ELSE IF lo = hi THEN IntGain(lo)
    ELSE SumGain(lo, (lo + hi) \div 2) + SumGain(((lo + hi) \div 2) + 1, hi)

RECURSIVE SumLoss(_, _)
SumLoss(lo, hi) ==
    IF lo > hi THEN 0
    ELSE IF lo = hi THEN IntLoss(lo)
    ELSE SumLoss(lo, (lo + hi) \div 2) + SumLoss(((lo + hi) \div 2) + 1, hi)

\* series is the W-point moving average of the closes held
IsSmaOfClose(series, W) ==
    /\ Len(series) = N
    /\ \A i \in 1..N :
          IF i < W THEN series[i].k = "nan"
          ELSE series[i].k = "num" /\ series[i].n * W = series[i].d * SumClose(i - W + 1, i)

\* series is what calculate_rsi(P) makes of the closes held: from index P-1
\* (0-based) on, 100 * gains / (gains + losses) over the P changes ending at i,
\* the change at index 0 counting as 0
IsRsiOfClose(series, P) ==
    /\ Len(series) = N
    /\ \A i \in 1..N :
          IF i < P THEN series[i].k = "nan"
          ELSE LET G == SumGain(i - P + 1, i)
                   L == SumLoss(i - P + 1, i)
               IN  IF G + L = 0 THEN series[i].k = "nan"
                   ELSE series[i].k = "num" /\ series[i].n * (G + L) = 100 * G * series[i].d

\* this step is a detect_trend call that returned normally
TrendStep == ncalls' = ncalls + 1 /\ lastCall'.op = "detect_trend" /\ ~lastCall'.raised

-----------------------------------------------------------------------------
(* Properties of the session API (Spec) *)

CalculateOps == {"calculate_sma", "calculate_ema", "calculate_rsi", "calculate_macd"}

\* C3: a calculate_* call with a window / period / span <= 0 (0 included)
\* raises and leaves the indicator mapping as it was.
C3_NonPositiveParameterFails ==
    [][(/\ ncalls' = ncalls + 1
        /\ lastCall'.op \in CalculateOps
        /\ \E j \in 1..Len(lastCall'.args) : lastCall'.args[j] <= 0)
       => (lastCall'.raised /\ indicators' = indicators)]_vars

\* C5: every series in the indicator mapping has as many entries as the price
\* series currently held has rows.
C5_IndicatorsAligned ==
    \A key \in DOMAIN indicators : Len(indicators[key]) = N

-----------------------------------------------------------------------------
(* Properties of main() (MainSpec) *)

Pipeline ==
    << "__init__", "fetch_data", "calculate_sma", "calculate_sma", "calculate_ema",
       "calculate_rsi", "calculate_macd", "detect_trend", "save_analysis",
       "plot_candlestick" >>

IndicatorSteps == CalculateOps \cup {"detect_trend"}

\* C4: when the series obtained has zero rows the run fails before any
\* indicator operation: no calculate_* or detect_trend call is made on it and
\* the indicator mapping stays empty.
C4_EmptySeriesFailsFirst ==
    (data.frame /\ N = 0 /\ pc \notin {"init", "fetch"}) =>
        /\ pc = "failed"
        /\ exitStatus = 1
        /\ indicators = NoIndicators
        /\ \A j \in 1..Len(invoked) : invoked[j].step \notin IndicatorSteps

\* C6: the steps of main() run in pipeline order, each at most once; once a
\* step has raised nothing further is invoked and the process exits with a
\* non-zero status; save_analysis is invoked only if every earlier step returned.
C6_FailureAborts ==
    /\ Len(invoked) <= Len(Pipeline)
    /\ \A j \in 1..Len(invoked) : invoked[j].step = Pipeline[j]
    /\ \A j \in 1..(Len(invoked) - 1) : ~invoked[j].raised
    /\ (Len(invoked) > 0 /\ invoked[Len(invoked)].raised) <=> pc = "failed"
    /\ pc = "failed" <=> exitStatus = 1
    /\ exitStatus \in {-1, 0, 1}
    /\ exitStatus = 0 <=> (Len(invoked) = Len(Pipeline) /\ ~invoked[Len(invoked)].raised)
    /\ csv.written =>
          \A j \in 1..Len(invoked) : j <= 9 => ~invoked[j].raised

\* a run whose fetch_data raised: it has exited with status 1, no indicator
\* was computed and nothing was saved
C6_Witness ==
    /\ pc = "failed"
    /\ exitStatus = 1
    /\ Len(invoked) = 2
    /\ invoked[2] = [step |-> "fetch_data", raised |-> TRUE]
    /\ indicators = NoIndicators
    /\ ~csv.written

====
